---- MODULE Spec2Model ----
(***************************************************************************)
(* The Gmail OAuth token lifecycle of the LiquidMail backend               *)
(* (app/main.py): save_tokens, get_valid_access_token, send_gmail and the  *)
(* /gmail/status, /gmail/send and /gmail/callback handlers, run by a pool  *)
(* of request workers against one gmail_tokens table and one clock.        *)
(*                                                                         *)
(* A handler is cut at its network calls: the table query, the POST to the *)
(* token endpoint and the POST to the mail endpoint.  Everything a handler *)
(* does between two network calls is one step.                             *)
(*                                                                         *)
(* The clock counts time units.  A round trip to the token endpoint takes  *)
(* time, so its reply is handled at a later clock value than the one the   *)
(* handler began at; the provider reports lifetimes that are not negative. *)
(*                                                                         *)
(* A Python dict is a record whose DOMAIN is the set of keys present, so   *)
(* that `"k" in d` is `"k" \in DOMAIN d`.  Python's None is the string     *)
(* "None"; tokens are the non-empty opaque strings "A1", "A2", ... and     *)
(* "R1".  The passthrough columns token_type and scope take no part in     *)
(* control flow and are left out of the rows.                              *)
(***************************************************************************)
EXTENDS Integers, Sequences, FiniteSets, TLC

\* ---- bounds ----
MaxTime      == 2      \* the clock stops ticking here
MaxRecords   == 2      \* rows inserted before the provider stops issuing

Workers       == {"w1", "w2"}
Users         == {"ann@x", "bob@x"}
Connecting    == {"ann@x"}     \* the users who go through the connect flow
RefreshTokens == {"R1"}
ExpiresIn     == {0, 2}        \* expires_in: zero, or longer than a round trip
None          == "None"

VARIABLES
    now,           \* datetime.now(timezone.utc), in whole time units
    gmail_tokens,  \* the table's rows in created_at order, oldest first
    history,       \* history: every row save_tokens inserted, with its grant_type
    pc,            \* where each worker's handler stands
    op,            \* which handler the worker runs
    user_email,    \* the handler's subject
    data,          \* result.data of the select
    new_tokens,    \* the token endpoint's JSON reply
    access_token,  \* what get_valid_access_token returned
    status_code,   \* the handler's HTTP outcome (0 while running)
    posts,         \* history: POSTs to the token endpoint with grant refresh_token
    mails,         \* history: POSTs to the mail endpoint
    bearer,        \* history: the Authorization bearer of the mail POST
    called_at,     \* history: the time the handler was called
    alone          \* history: no other handler was running during this one

vars == <<now, gmail_tokens, history, pc, op, user_email, data, new_tokens,
          access_token, status_code, posts, mails, bearer, called_at, alone>>

\* ---- pure helpers ----

\* dict.get(key, default)
get(d, key, default) == IF key \in DOMAIN d THEN d[key] ELSE default

\* datetime.isoformat() of a UTC time, and datetime.fromisoformat()
isoformat(t)     == [seconds |-> t, tzinfo |-> "+00:00"]
fromisoformat(s) == s.seconds

\* the lifetime taken off instead of added
expires_at_before(t, tokens) == t - tokens.expires_in

\* expires_at = now + timedelta(seconds = tokens["expires_in"])
expires_at_of(t, tokens) == t + tokens.expires_in

\* the row save_tokens inserts
token_row(user_id, tokens, t) ==
    [ user_email    |-> user_id,
      access_token  |-> tokens.access_token,
      refresh_token |-> get(tokens, "refresh_token", None),
      expires_at    |-> isoformat(expires_at_of(t, tokens)) ]

\* a write that replaces the user's rows instead of adding one
upsert(rows, row) ==
    SelectSeq(rows, LAMBDA r : r.user_email # row.user_email) \o <<row>>

\* supabase.table("gmail_tokens").insert(row).execute()
insert(rows, row) == Append(rows, row)

\* save_tokens(user_id, tokens) at time t
save_tokens(rows, user_id, tokens, t) == insert(rows, token_row(user_id, tokens, t))

\* tokens["expires_in"] raises KeyError when the key is absent
raises_KeyError(tokens) == "expires_in" \notin DOMAIN tokens

\* the order turned around: the oldest row first
select_oldest(rows, u) ==
    LET idx == { i \in 1 .. Len(rows) : rows[i].user_email = u }
    IN  IF idx = {} THEN <<>>
        ELSE << rows[CHOOSE i \in idx : \A j \in idx : i <= j] >>

\* .eq("user_email", u).order("created_at", desc=True).limit(1)
select_latest(rows, u) ==
    LET idx == { i \in 1 .. Len(rows) : rows[i].user_email = u }
    IN  IF idx = {} THEN <<>>
        ELSE << rows[CHOOSE i \in idx : \A j \in idx : j <= i] >>

\* the comparison turned around
still_valid_reversed(record, t) == fromisoformat(record.expires_at) < t

\* expires_at > datetime.now(timezone.utc)
still_valid(record, t) == fromisoformat(record.expires_at) > t

\* the reply is never looked at
never_missing(tokens) == FALSE

\* "access_token" not in new_tokens
missing_access_token(tokens) == "access_token" \notin DOMAIN tokens

\* the token is never looked at
never_no_token(tok) == FALSE

\* `if not access_token`
no_token(tok) == tok = None \/ tok = ""

\* ---- the provider ----

Unassigned == [unassigned |-> TRUE]
ErrorReply == [error |-> "invalid_grant"]

\* the k-th access token the provider issues
Issue(k) == "A" \o ToString(k)

\* the replies the token endpoint can give when it issues token tok
TokenReplies(tok) ==
    { [access_token |-> tok] }
    \cup [access_token : {tok}, expires_in : ExpiresIn]
    \cup [access_token : {tok}, expires_in : ExpiresIn, refresh_token : RefreshTokens]

InFlight(w) == pc[w] \notin {"idle", "done"}

\* ---- initial state ----
Init ==
    /\ now = 0
    /\ gmail_tokens = <<>>
    /\ history = <<>>
    /\ pc = [w \in Workers |-> "idle"]
    /\ op = [w \in Workers |-> "none"]
    /\ user_email = [w \in Workers |-> ""]
    /\ data = [w \in Workers |-> <<>>]
    /\ new_tokens = [w \in Workers |-> Unassigned]
    /\ access_token = [w \in Workers |-> None]
    /\ status_code = [w \in Workers |-> 0]
    /\ posts = [w \in Workers |-> 0]
    /\ mails = [w \in Workers |-> 0]
    /\ bearer = [w \in Workers |-> None]
    /\ called_at = [w \in Workers |-> 0]
    /\ alone = [w \in Workers |-> TRUE]

\* ---- steps ----

table == <<gmail_tokens, history>>

\* a worker takes a request: its locals are fresh
Begin(w, handler, u) ==
    /\ ~InFlight(w)
    /\ op' = [op EXCEPT ![w] = handler]
    /\ user_email' = [user_email EXCEPT ![w] = u]
    /\ new_tokens' = [new_tokens EXCEPT ![w] = Unassigned]
    /\ access_token' = [access_token EXCEPT ![w] = None]
    /\ status_code' = [status_code EXCEPT ![w] = 0]
    /\ posts' = [posts EXCEPT ![w] = 0]
    /\ mails' = [mails EXCEPT ![w] = 0]
    /\ bearer' = [bearer EXCEPT ![w] = None]
    /\ called_at' = [called_at EXCEPT ![w] = now]
    /\ alone' = [v \in Workers |->
                    IF v = w THEN \A q \in Workers \ {w} : ~InFlight(q)
                    ELSE alone[v] /\ ~InFlight(v)]

\* the call is over: the select's result is out of scope and the call's
\* history is closed
Close(w) ==
    /\ data' = [data EXCEPT ![w] = <<>>]
    /\ called_at' = [called_at EXCEPT ![w] = 0]
    /\ alone' = [alone EXCEPT ![w] = TRUE]

\* the handler answers with an HTTP status
Respond(w, code) ==
    /\ pc' = [pc EXCEPT ![w] = "done"]
    /\ status_code' = [status_code EXCEPT ![w] = code]

\* save_tokens runs: one row more in the table
Save(w, tokens, grant_type) ==
    /\ gmail_tokens' = save_tokens(gmail_tokens, user_email[w], tokens, now)
    /\ history' = Append(history, [row |-> token_row(user_email[w], tokens, now),
                                   grant_type |-> grant_type])

\* get_valid_access_token returns tok to its caller: gmail_status answers,
\* send_gmail raises 400 or POSTs the message with tok as bearer
Return(w, tok) ==
    /\ access_token' = [access_token EXCEPT ![w] = tok]
    /\ Close(w)
    /\ IF op[w] = "send" /\ ~no_token(tok)
       THEN /\ pc' = [pc EXCEPT ![w] = "mail"]
            /\ mails' = [mails EXCEPT ![w] = @ + 1]
            /\ bearer' = [bearer EXCEPT ![w] = tok]
            /\ UNCHANGED status_code
       ELSE /\ Respond(w, IF op[w] = "send" THEN 400 ELSE 200)
            /\ UNCHANGED <<mails, bearer>>

\* GET /gmail/status: get_valid_access_token runs its select
gmail_status(w, u) ==
    /\ Begin(w, "status", u)
    /\ data' = [data EXCEPT ![w] = select_latest(gmail_tokens, u)]
    /\ pc' = [pc EXCEPT ![w] = "validate"]
    /\ UNCHANGED <<now, table>>

\* POST /gmail/send: send_gmail calls get_valid_access_token, which runs its select
gmail_send(w, u) ==
    /\ Begin(w, "send", u)
    /\ data' = [data EXCEPT ![w] = select_latest(gmail_tokens, u)]
    /\ pc' = [pc EXCEPT ![w] = "validate"]
    /\ UNCHANGED <<now, table>>

\* get_valid_access_token from the select's result to its return or its POST
validate(w) ==
    /\ pc[w] = "validate"
    /\ IF data[w] = <<>>
       THEN Return(w, None) /\ UNCHANGED posts
       ELSE IF still_valid(data[w][1], now)
       THEN Return(w, data[w][1].access_token) /\ UNCHANGED posts
       ELSE /\ pc' = [pc EXCEPT ![w] = "refresh"]
            /\ posts' = [posts EXCEPT ![w] = @ + 1]
            /\ UNCHANGED <<access_token, status_code, mails, bearer, data,
                           called_at, alone>>
    /\ UNCHANGED <<now, table, op, user_email, new_tokens>>

\* get_valid_access_token from the token endpoint's reply to its return
refresh_reply(w, reply) ==
    /\ pc[w] = "refresh"
    /\ new_tokens' = [new_tokens EXCEPT ![w] = reply]
    /\ IF missing_access_token(reply)
       THEN /\ Return(w, None)
            /\ UNCHANGED table
       ELSE IF raises_KeyError(reply)
       THEN /\ Respond(w, 500)
            /\ Close(w)
            /\ UNCHANGED <<table, access_token, mails, bearer>>
       ELSE /\ Save(w, reply, "refresh_token")
            /\ Return(w, reply.access_token)
    /\ UNCHANGED <<now, op, user_email, posts>>

\* the token endpoint answers a refresh: an error, or a newly issued token;
\* a request without a refresh token is always refused, and the round trip
\* takes time: the clock has moved on since the call began
refresh_response(w) ==
    \E reply \in {ErrorReply} \cup TokenReplies(Issue(Len(gmail_tokens) + 1)) :
        /\ pc[w] = "refresh"
        /\ now > called_at[w]
        /\ "access_token" \in DOMAIN reply =>
              /\ data[w][1].refresh_token # None
              /\ Len(history) < MaxRecords
        /\ refresh_reply(w, reply)

\* send_gmail from the mail endpoint's reply to its return
mail_reply(w, code) ==
    /\ pc[w] = "mail"
    /\ Respond(w, IF code \notin {200, 202} THEN 500 ELSE 200)
    /\ UNCHANGED <<now, table, op, user_email, data, new_tokens, access_token,
                   posts, mails, bearer, called_at, alone>>

\* the mail endpoint answers
mail_response(w) ==
    \E code \in {200, 202, 401} : mail_reply(w, code)

\* GET /gmail/callback: the authorization code is POSTed to the token endpoint
gmail_callback(w, state) ==
    /\ Begin(w, "callback", state)
    /\ data' = [data EXCEPT ![w] = <<>>]
    /\ pc' = [pc EXCEPT ![w] = "exchange"]
    /\ UNCHANGED <<now, table>>

\* gmail_callback from the token endpoint's reply to its response
callback_reply(w, tokens) ==
    /\ pc[w] = "exchange"
    /\ new_tokens' = [new_tokens EXCEPT ![w] = tokens]
    /\ Close(w)
    /\ IF missing_access_token(tokens)
       THEN /\ Respond(w, 400)
            /\ UNCHANGED table
       ELSE IF raises_KeyError(tokens)
       THEN /\ Respond(w, 500)
            /\ UNCHANGED table
       ELSE /\ Save(w, tokens, "authorization_code")
            /\ Respond(w, 200)
    /\ UNCHANGED <<now, op, user_email, access_token, posts, mails, bearer>>

\* the token endpoint answers a code exchange, after a round trip that takes
\* time
callback_response(w) ==
    \E tokens \in {ErrorReply} \cup TokenReplies(Issue(Len(gmail_tokens) + 1)) :
        /\ pc[w] = "exchange"
        /\ now > called_at[w]
        /\ "access_token" \in DOMAIN tokens => Len(history) < MaxRecords
        /\ callback_reply(w, tokens)

\* time passes
Tick ==
    /\ now < MaxTime
    /\ now' = now + 1
    /\ UNCHANGED <<table, pc, op, user_email, data, new_tokens,
                   access_token, status_code, posts, mails, bearer, called_at, alone>>

Next ==
    \/ \E w \in Workers, u \in Users : gmail_status(w, u)
    \/ \E w \in Workers, u \in Users : gmail_send(w, u)
    \/ \E w \in Workers, u \in Connecting : gmail_callback(w, u)
    \/ \E w \in Workers : validate(w)
    \/ \E w \in Workers : refresh_response(w)
    \/ \E w \in Workers : mail_response(w)
    \/ \E w \in Workers : callback_response(w)
    \/ Tick

Spec == Init /\ [][Next]_vars

TypeOK ==
    /\ now \in 0 .. MaxTime
    /\ Len(history) <= MaxRecords
    /\ Len(history) = Len(gmail_tokens)
    /\ \A w \in Workers :
          /\ pc[w] \in {"idle", "validate", "refresh", "mail", "exchange", "done"}
          /\ op[w] \in {"none", "status", "send", "callback"}
          /\ Len(data[w]) <= 1
          /\ posts[w] \in 0 .. 1
          /\ mails[w] \in 0 .. 1

\* ---- properties ----

\* in this step get_valid_access_token returns to its caller (it does not raise)
Returns(w) ==
    /\ pc[w] \in {"validate", "refresh"}
    /\ pc'[w] \in {"done", "mail"}
    /\ status_code'[w] # 500

\* in this step get_valid_access_token finds the selected record still valid
FindsValid(w) ==
    /\ pc[w] = "validate"
    /\ pc'[w] # "validate"
    /\ data[w] # <<>>
    /\ fromisoformat(data[w][1].expires_at) > now

\* in this step get_valid_access_token finds the selected record expired
FindsExpired(w) ==
    /\ pc[w] = "validate"
    /\ pc'[w] # "validate"
    /\ data[w] # <<>>
    /\ fromisoformat(data[w][1].expires_at) <= now

\* the newest row of user u, as a list of at most one row
Newest(u) ==
    LET mine == SelectSeq(gmail_tokens, LAMBDA r : r.user_email = u)
    IN  IF mine = <<>> THEN <<>> ELSE <<mine[Len(mine)]>>

\* C1: whenever get_valid_access_token returns an access token, the token is
\* that of a stored row of the subject whose expiry is strictly later than the
\* time of the call.
C1_NeverReturnsExpired ==
    [][ \A w \in Workers :
          (Returns(w) /\ access_token'[w] # None) =>
              \E i \in 1 .. Len(gmail_tokens') :
                  /\ gmail_tokens'[i].user_email = user_email[w]
                  /\ gmail_tokens'[i].access_token = access_token'[w]
                  /\ fromisoformat(gmail_tokens'[i].expires_at) > called_at[w] ]_vars

\* a call has returned the token of a refresh whose reply reported a lifetime
\* of zero
C1_Witness ==
    \E w \in Workers, i \in 1 .. Len(gmail_tokens) :
        /\ pc[w] \in {"done", "mail"}
        /\ posts[w] = 1
        /\ access_token[w] = gmail_tokens[i].access_token
        /\ new_tokens[w].expires_in = 0

\* C2: at most one POST to the token endpoint with grant refresh_token is in
\* flight per subject.
C2_OneRefreshInFlight ==
    \A u \in Users :
        Cardinality({ w \in Workers : pc[w] = "refresh" /\ user_email[w] = u }) <= 1

\* C3: when the refresh reply omits refresh_token, the row the refresh inserts
\* holds the refresh token of the row that was refreshed.
C3_RefreshTokenCarriedForward ==
    [][ \A w \in Workers :
          ( /\ pc[w] = "refresh"
            /\ pc'[w] # "refresh"
            /\ Len(gmail_tokens') > Len(gmail_tokens)
            /\ "refresh_token" \notin DOMAIN new_tokens'[w] ) =>
              gmail_tokens'[Len(gmail_tokens')].refresh_token
                  = data[w][1].refresh_token ]_vars

\* C4: when the selected record is expired and has no refresh token,
\* get_valid_access_token returns none without a POST to the token endpoint.
C4_NoRefreshTokenNoRefresh ==
    [][ \A w \in Workers :
          (FindsExpired(w) /\ data[w][1].refresh_token = None) =>
              /\ pc'[w] = "done"
              /\ access_token'[w] = None
              /\ posts'[w] = 0 ]_vars

\* C5: the select yields the subject's most recently created row, and when that
\* row's expiry is later than now get_valid_access_token returns its access
\* token, POSTs nothing to the token endpoint and leaves the table as it is.
C5_FastPath ==
    [][ \A w \in Workers :
          /\ (pc[w] # "validate" /\ pc'[w] = "validate") =>
                data'[w] = Newest(user_email'[w])
          /\ FindsValid(w) =>
                /\ Returns(w)
                /\ access_token'[w] = data[w][1].access_token
                /\ posts'[w] = 0
                /\ gmail_tokens' = gmail_tokens ]_vars

\* a call has returned a token without any POST to the token endpoint
C5_Witness ==
    \E w \in Workers :
        /\ pc[w] \in {"done", "mail"}
        /\ op[w] \in {"status", "send"}
        /\ posts[w] = 0
        /\ access_token[w] # None

\* C6: when the token endpoint's reply to the refresh carries no access_token,
\* get_valid_access_token returns none and not an error, after exactly one POST
\* to the token endpoint and no POST pending, and the table is as it was.
C6_FailedRefresh ==
    [][ \A w \in Workers :
          ( /\ pc[w] = "refresh"
            /\ pc'[w] # "refresh"
            /\ "access_token" \notin DOMAIN new_tokens'[w] ) =>
              /\ Returns(w)
              /\ pc'[w] = "done"
              /\ access_token'[w] = None
              /\ status_code'[w] = (IF op[w] = "send" THEN 400 ELSE 200)
              /\ posts'[w] = 1
              /\ gmail_tokens' = gmail_tokens ]_vars

\* a call has ended on a refused refresh
C6_Witness ==
    \E w \in Workers :
        /\ pc[w] = "done"
        /\ op[w] \in {"status", "send"}
        /\ posts[w] = 1
        /\ new_tokens[w] = ErrorReply
        /\ access_token[w] = None

\* get_valid_access_token raised instead of returning
Raised(w) ==
    /\ "access_token" \in DOMAIN new_tokens[w]
    /\ "expires_in" \notin DOMAIN new_tokens[w]

\* C7: a send whose get_valid_access_token returned none ends with status 400
\* and no POST to the mail endpoint; every POST to the mail endpoint belongs to
\* a send and carries the token get_valid_access_token returned to that send.
C7_SendGated ==
    \A w \in Workers :
        /\ (pc[w] = "done" /\ op[w] = "send" /\ access_token[w] = None /\ ~Raised(w)) =>
              (status_code[w] = 400 /\ mails[w] = 0)
        /\ (pc[w] = "mail" \/ mails[w] > 0) =>
              /\ op[w] = "send"
              /\ mails[w] = 1
              /\ access_token[w] # None
              /\ bearer[w] = access_token[w]

\* one send has been refused for want of a token while another has POSTed its
\* message
C7_Witness ==
    \E w, v \in Workers :
        /\ pc[w] = "done" /\ op[w] = "send" /\ status_code[w] = 400
        /\ access_token[w] = None /\ mails[w] = 0
        /\ mails[v] = 1 /\ bearer[v] # None

\* C8: every row save_tokens inserts has an expiry strictly before the time of
\* the write plus the reported expires_in, that is, it is written with a
\* positive safety margin.
C8_SafetyMargin ==
    [][ Len(gmail_tokens') > Len(gmail_tokens) =>
          \E w \in Workers :
              /\ pc[w] \in {"refresh", "exchange"}
              /\ pc'[w] # pc[w]
              /\ fromisoformat(gmail_tokens'[Len(gmail_tokens')].expires_at)
                    < now + new_tokens'[w].expires_in ]_vars

\* row i of the history was written by a callback for w's subject and is
\* unexpired
Authorized(w, i) ==
    /\ history[i].grant_type = "authorization_code"
    /\ history[i].row.user_email = user_email[w]
    /\ fromisoformat(history[i].row.expires_at) > now

\* no row written for the subject after row i expires before row i does
Outlived(i) ==
    \A j \in i + 1 .. Len(history) :
        history[j].row.user_email = history[i].row.user_email =>
            fromisoformat(history[j].row.expires_at)
                >= fromisoformat(history[i].row.expires_at)

\* the token returned to w in this step is that of row i or of a later row
RecoveredFrom(w, i) ==
    /\ access_token'[w] # None
    /\ \E j \in i .. Len(history') :
          history'[j].row.access_token = access_token'[w]

C10_AppendOnly ==
    /\ Len(gmail_tokens) = Len(history)
    /\ \A i \in 1 .. Len(history) : gmail_tokens[i] = history[i].row
    /\ \A u \in Users :
          LET mine == { i \in 1 .. Len(history) : history[i].row.user_email = u }
          IN  mine # {} =>
                select_latest(gmail_tokens, u)
                    = << history[CHOOSE i \in mine : \A j \in mine : j <= i].row >>

\* a refresh has added a row over the authorization's one
C10_Witness ==
    /\ Len(gmail_tokens) = 2
    /\ gmail_tokens[1].user_email = gmail_tokens[2].user_email
    /\ history[2].grant_type = "refresh_token"
    /\ \E w \in Workers : pc[w] \in {"done", "mail"} /\ posts[w] = 0
                             /\ access_token[w] = gmail_tokens[2].access_token
====
